---- MODULE Spec2Model ----
(***************************************************************************)
(* A model of shotcheck.py: a single-threaded batch tool that pairs the    *)
(* .png files of two directories by a prefix (the file name without its    *)
(* trailing _YYYYMMDD_HHMMSS.png), renders a difference image per pair and *)
(* writes difference_report.txt.                                           *)
(*                                                                         *)
(* Strings are sequences of one-character strings; "LF" stands for the     *)
(* newline character and "U0662" for a non-ASCII decimal digit.            *)
(***************************************************************************)
EXTENDS Integers, Sequences, FiniteSets, TLC

VARIABLES
    \* ---- the process (main, compare_directories)
    pc,                 \* position of the process
    argv_len,           \* len(sys.argv)
    dir1, dir2,         \* an input directory: whether it exists, and its entry names
    outParent,          \* whether the parent of the output path is a directory
    outDir,             \* the output path: "absent" or "dir"
    outFiles,           \* entries of the output directory: name -> "old" | "new" | "partial"
    outDir0, outFiles0, \* the output path and its entries when the process started
    enum1, enum2,       \* the order in which glob enumerated each directory
    images1, images2,   \* the two indexes: prefix -> file name
    common_prefixes,    \* the matched prefixes
    todo,               \* what is left of sorted(common_prefixes)
    attempted,          \* the prefixes the loop has entered, in order
    outcome,            \* prefix -> how its iteration ended
    processed, files_with_diff, files_without_diff,
    report,             \* what was written to difference_report.txt
    stdout,             \* the kinds of line printed so far
    exit_code,          \* the exit status of the process (NoExit while it runs)
    \* ---- extract_prefix on its own
    fname, fprefix, fpc,
    \* ---- create_difference_image on its own
    dimg1, dimg2, dmask, dhas, dresult, dpc

vars == << pc, argv_len, dir1, dir2, outParent, outDir, outFiles, outDir0, outFiles0,
           enum1, enum2, images1, images2, common_prefixes, todo, attempted, outcome,
           processed, files_with_diff, files_without_diff, report, stdout, exit_code,
           fname, fprefix, fpc, dimg1, dimg2, dmask, dhas, dresult, dpc >>

mainVars == << pc, argv_len, dir1, dir2, outParent, outDir, outFiles, outDir0, outFiles0,
               enum1, enum2, images1, images2, common_prefixes, todo, attempted, outcome,
               processed, files_with_diff, files_without_diff, report, stdout, exit_code >>
prefixVars == << fname, fprefix, fpc >>
diffVars == << dimg1, dimg2, dmask, dhas, dresult, dpc >>

None == "None"
\* a path that is no directory
Missing == [exists |-> FALSE, entries |-> {}]
NoExit == -1

(***************************************************************************)
(* Bounds of the model.                                                    *)
(***************************************************************************)
\* the most entries a modelled input directory holds
MaxFiles == 3
\* the longest <base> tried in front of a file-name tail
MaxBaseLen == 2
\* the widest image compared on its own (images are one row high)
MaxWidth == 2

(***************************************************************************)
(* Characters and strings.                                                 *)
(***************************************************************************)
AsciiDigits == {"0", "1", "2", "3", "4", "5", "6", "7", "8", "9"}
\* str patterns are Unicode patterns: \d matches every decimal digit
Digits == AsciiDigits \cup {"U0662"}

\* code points, the order sorted() compares strings by
Ord(c) ==
    CASE c = "LF" -> 10
      [] c = "." -> 46
      [] c \in AsciiDigits -> 48 + (CHOOSE k \in 0..9 :
                                      c = <<"0","1","2","3","4","5","6","7","8","9">>[k + 1])
      [] c = "B" -> 66
      [] c = "_" -> 95
      [] c = "a" -> 97
      [] c = "b" -> 98
      [] c = "d" -> 100
      [] c = "e" -> 101
      [] c = "f" -> 102
      [] c = "g" -> 103
      [] c = "i" -> 105
      [] c = "k" -> 107
      [] c = "n" -> 110
      [] c = "p" -> 112
      [] c = "t" -> 116
      [] c = "x" -> 120
      [] c = "U0662" -> 1634

Min(a, b) == IF a <= b THEN a ELSE b

\* s < t on Python strings
StrLess(s, t) ==
    \E i \in 1..(Min(Len(s), Len(t)) + 1) :
        /\ \A j \in 1..(i - 1) : s[j] = t[j]
        /\ \/ i > Len(s) /\ i <= Len(t)
           \/ i <= Len(s) /\ i <= Len(t) /\ Ord(s[i]) < Ord(t[i])

DropFirst(s, n) == SubSeq(s, n + 1, Len(s))
EndsWith(s, t) == Len(s) >= Len(t) /\ SubSeq(s, Len(s) - Len(t) + 1, Len(s)) = t

DotPng == <<".", "p", "n", "g">>
DotTxt == <<".", "t", "x", "t">>

(***************************************************************************)
(* extract_prefix: re.sub(r'_\d{8}_\d{6}\.png$', '', filename).            *)
(***************************************************************************)
DateDigits == 8
TimeDigits == 6
PatternLen == 1 + DateDigits + 1 + TimeDigits + Len(DotPng)

\* $ (no MULTILINE flag): at the end of the string, or just before a newline that
\* is the last character of the string
DollarAt(s, j) == j = Len(s) + 1 \/ (j = Len(s) /\ s[j] = "LF")

\* the pattern matches s from position i on
MatchAt(s, i) ==
    /\ i >= 1
    /\ i + PatternLen - 1 <= Len(s)
    /\ s[i] = "_"
    /\ \A k \in 1..DateDigits : s[i + k] \in Digits
    /\ s[i + DateDigits + 1] = "_"
    /\ \A k \in 1..TimeDigits : s[i + DateDigits + 1 + k] \in Digits
    /\ SubSeq(s, i + DateDigits + TimeDigits + 2, i + PatternLen - 1) = DotPng
    /\ DollarAt(s, i + PatternLen)

\* re.sub replaces the leftmost match and goes on after it; a match ends at the
\* last or the last but one character, so a second one cannot follow it
extract_prefix(filename) ==
    IF \E i \in 1..Len(filename) : MatchAt(filename, i)
    THEN LET i == CHOOSE i \in 1..Len(filename) :
                     /\ MatchAt(filename, i)
                     /\ \A j \in 1..(i - 1) : ~MatchAt(filename, j)
         IN  SubSeq(filename, 1, i - 1) \o DropFirst(filename, i + PatternLen - 1)
    ELSE filename

(***************************************************************************)
(* create_difference_image.  An image is one row of pixels, a pixel is     *)
(* <<r, g, b>> with channels in 0..255 (after convert('RGB')); Corrupt is  *)
(* a file that Image.open cannot decode.                                   *)
(***************************************************************************)
Corrupt == "Corrupt"
Channels == 1..3
Highlight == <<255, 50, 50>>
threshold == 10

Abs(x) == IF x < 0 THEN -x ELSE x

\* ImageChops.difference(img1, img2) as an array
Difference(img1, img2) ==
    [i \in 1..Len(img1) |-> [c \in Channels |-> Abs(img1[i][c] - img2[i][c])]]

ExceedsGE(v) == v >= threshold
\* diff_array > threshold, elementwise
Exceeds(v) == v > threshold

\* np.any(diff_array > threshold, axis=2)
DiffMask(diff_array) ==
    [i \in 1..Len(diff_array) |-> \E c \in Channels : Exceeds(diff_array[i][c])]

\* np.dot(pixel, [0.299, 0.587, 0.114]).astype(np.uint8), in exact arithmetic
\* (float64 rounding gives one less for some pixels whose exact sum is an integer)
Gray(p) == (299 * p[1] + 587 * p[2] + 114 * p[3]) \div 1000

\* the difference panel: the grayscale of img1 with the masked pixels highlighted
ResultArray(img1, diff_mask) ==
    [i \in 1..Len(img1) |->
        IF diff_mask[i] THEN Highlight ELSE <<Gray(img1[i]), Gray(img1[i]), Gray(img1[i])>>]

\* np.any(diff_mask)
HasDifference(diff_mask) == \E i \in 1..Len(diff_mask) : diff_mask[i]

\* the part of create_difference_image after both images have the same size
create_difference_image(img1, img2) ==
    LET diff_mask == DiffMask(Difference(img1, img2))
    IN  [mask |-> diff_mask,
         result |-> ResultArray(img1, diff_mask),
         combined_width |-> Len(img1) * 3,
         has_difference |-> HasDifference(diff_mask)]

(***************************************************************************)
(* extract_prefix on its own: one file name in, its prefix out.            *)
(***************************************************************************)
Stamp1 == <<"_","2","0","2","5","0","1","0","1","_","0","0","0","0","0","0">>
Stamp2 == <<"_","2","0","2","5","0","1","0","1","_","0","0","0","0","0","1">>
TailOk == Stamp1 \o DotPng

Tails ==
    { <<>>,
      DotPng,
      TailOk,
      Stamp2 \o DotPng,
      Stamp1 \o DotTxt,                                                 \* other extension
      <<"_","2","0","2","5","0","1","0","U0662","_","0","0","0","0","0","0">> \o DotPng,
      <<"_","2","0","2","5","0","1","0","_","0","0","0","0","0","0">> \o DotPng,       \* 7 digits
      <<"_","2","0","2","5","0","1","0","1","1","_","0","0","0","0","0","0">> \o DotPng, \* 9 digits
      <<"_","2","0","2","5","0","1","0","1","_","0","0","0","0","0">> \o DotPng,       \* 5 digits
      <<"_","2","0","2","5","0","1","0","1","_","0","0","0","0","0","0","0">> \o DotPng, \* 7 digits
      <<"_","2","0","2","5","0","1","0","1","a","0","0","0","0","0","0">> \o DotPng,   \* no second _
      TailOk \o <<"a">>,                                                \* not at the end
      TailOk \o <<"LF">>,
      TailOk \o <<"LF", "LF">>,
      TailOk \o <<"LF", "a">>,
      TailOk \o TailOk }

BaseChars == {"a", "_", "2"}
Bases == UNION { [1..n -> BaseChars] : n \in 0..MaxBaseLen }
FileNameInputs == { b \o t : b \in Bases, t \in Tails }

InitPrefix ==
    /\ fname \in FileNameInputs
    /\ fprefix = <<>>
    /\ fpc = "call"

ExtractPrefix ==
    /\ fpc = "call"
    /\ fprefix' = extract_prefix(fname)
    /\ fpc' = "returned"
    /\ UNCHANGED fname

(***************************************************************************)
(* create_difference_image on its own: two decoded images in, the mask,    *)
(* the difference panel and has_difference out.                            *)
(***************************************************************************)
\* pairs (channel of img1, channel of img2): equal, 10 apart, 11 apart, far apart
ChannelPairs == { <<100, 100>>, <<110, 100>>, <<100, 111>>, <<255, 0>> }
PixelPairs == [Channels -> ChannelPairs]
Left(pp) == [c \in Channels |-> pp[c][1]]
Right(pp) == [c \in Channels |-> pp[c][2]]

InitDiff ==
    /\ \E n \in 1..MaxWidth : \E pps \in [1..n -> PixelPairs] :
          /\ dimg1 = [i \in 1..n |-> Left(pps[i])]
          /\ dimg2 = [i \in 1..n |-> Right(pps[i])]
    /\ dmask = <<>>
    /\ dhas = FALSE
    /\ dresult = <<>>
    /\ dpc = "call"

CreateDifferenceImage ==
    /\ dpc = "call"
    /\ LET r == create_difference_image(dimg1, dimg2)
       IN  /\ dmask' = r.mask
           /\ dhas' = r.has_difference
           /\ dresult' = r.result
    /\ dpc' = "returned"
    /\ UNCHANGED << dimg1, dimg2 >>

(***************************************************************************)
(* The file system the process runs on.                                    *)
(***************************************************************************)
FileA1 == <<"a">> \o Stamp1 \o DotPng
FileA2 == <<"a">> \o Stamp2 \o DotPng
FileB == <<"B">> \o Stamp1 \o DotPng
FileNoStamp == <<"b">> \o DotPng
FileTxt == <<"a">> \o Stamp1 \o DotTxt
DirEntries == {FileA1, FileA2, FileB, FileNoStamp, FileTxt}
Directories ==
    {Missing} \cup { [exists |-> TRUE, entries |-> S] :
                        S \in { T \in SUBSET DirEntries : Cardinality(T) <= MaxFiles } }

ReportName ==
    <<"d","i","f","f","e","r","e","n","c","e","_","r","e","p","o","r","t">> \o DotTxt
KeepName == <<"k","e","e","p">> \o DotTxt
\* output_dir / f"{prefix}_diff.png"
DiffName(prefix) == prefix \o <<"_","d","i","f","f">> \o DotPng

EmptyMap == [x \in {} |-> None]
Put(f, k, v) == [x \in DOMAIN f \cup {k} |-> IF x = k THEN v ELSE f[x]]

\* an output directory left by an earlier run
OldOutput == [n \in {DiffName(<<"a">>), KeepName, ReportName} |-> "old"]

\* what Image.open(...).convert('RGB') finds in a file
ImgA == << <<100, 100, 100>> >>
ImgB == << <<110, 100, 100>> >>
ImgC == << <<100, 111, 100>> >>
ImgWide == << <<100, 100, 100>>, <<255, 0, 100>> >>
FileContents == {Corrupt, ImgA, ImgB, ImgC, ImgWide}
\* what img2.resize(img1.size, LANCZOS) may return: some image of the asked width
SamplePixels == {ImgA[1], ImgC[1]}
Resized(width) == [1..width -> SamplePixels]

\* where an iteration of the loop may raise, beyond a file that cannot be decoded
Faults == {"none", "resize", "render", "save_unwritten", "save_partial"}

(***************************************************************************)
(* collect_images.                                                         *)
(***************************************************************************)
Perms(S) == { s \in [1..Cardinality(S) -> S] : \A i, j \in DOMAIN s : i # j => s[i] # s[j] }

\* directory.glob('*.png'): the entries whose name ends in .png
GlobPng(directory) ==
    IF ~directory.exists THEN {} ELSE { f \in directory.entries : EndsWith(f, DotPng) }

RECURSIVE CollectFrom(_, _)
CollectFrom(order, images) ==
    IF order = <<>> THEN images
    ELSE CollectFrom(Tail(order), Put(images, extract_prefix(Head(order)), Head(order)))

RECURSIVE CollectFirstWins(_, _)
CollectFirstWins(order, images) ==
    IF order = <<>> THEN images
    ELSE LET k == extract_prefix(Head(order))
         IN  CollectFirstWins(Tail(order),
                              IF k \in DOMAIN images THEN images
                              ELSE Put(images, k, Head(order)))

collect_images_first_wins(order) == CollectFirstWins(order, EmptyMap)
\* the loop of collect_images over the files in the order glob yields them
collect_images(order) == CollectFrom(order, EmptyMap)

(***************************************************************************)
(* Matching and ordering.                                                  *)
(***************************************************************************)
\* set(images1.keys()) & set(images2.keys())
CommonPrefixes(im1, im2) == DOMAIN im1 \cap DOMAIN im2

RECURSIVE SortedBy(_, _)
SortedBy(S, descending) ==
    IF S = {} THEN <<>>
    ELSE LET m == CHOOSE x \in S : \A y \in S \ {x} :
                      IF descending THEN StrLess(y, x) ELSE StrLess(x, y)
         IN  <<m>> \o SortedBy(S \ {m}, descending)

sorted_descending(S) == SortedBy(S, TRUE)
\* sorted(common_prefixes)
sorted(S) == SortedBy(S, FALSE)

(***************************************************************************)
(* main.                                                                   *)
(***************************************************************************)
main_check_skips_dir2(n, d1, d2) ==
    IF n # 4 THEN "usage"
    ELSE IF ~d1.exists THEN "dir1_not_found"
    ELSE "ok"

\* the checks of main, in order: what it prints before sys.exit(1), or "ok"
main_check(n, d1, d2) ==
    IF n # 4 THEN "usage"
    ELSE IF ~d1.exists THEN "dir1_not_found"
    ELSE IF ~d2.exists THEN "dir2_not_found"
    ELSE "ok"

Main ==
    /\ pc = "main"
    /\ LET c == main_check(argv_len, dir1, dir2)
       IN  IF c = "ok"
           THEN /\ stdout' = stdout \cup {"banner"}
                /\ pc' = "mkdir"
                /\ UNCHANGED exit_code
           ELSE /\ stdout' = stdout \cup {c}
                /\ pc' = "exited"
                /\ exit_code' = 1
    /\ UNCHANGED << argv_len, dir1, dir2, outParent, outDir, outFiles, outDir0, outFiles0,
                    enum1, enum2, images1, images2, common_prefixes, todo, attempted,
                    outcome, processed, files_with_diff, files_without_diff, report >>

(***************************************************************************)
(* compare_directories.                                                    *)
(***************************************************************************)
\* output_dir.mkdir(exist_ok=True): the path afterwards, or "raise" (FileNotFoundError
\* when the parent is missing)
mkdir(exists, parent) ==
    IF exists = "dir" THEN "dir"
    ELSE IF parent THEN "dir"
    ELSE "raise"

Mkdir ==
    /\ pc = "mkdir"
    /\ LET r == mkdir(outDir, outParent)
       IN  IF r = "raise"
           THEN /\ pc' = "crash"          \* the exception reaches the top level
                /\ exit_code' = 1
                /\ UNCHANGED << outDir, outParent >>
           ELSE /\ outDir' = r
                /\ outParent' = TRUE
                /\ pc' = "scan1"
                /\ UNCHANGED exit_code
    /\ UNCHANGED << argv_len, dir1, dir2, outFiles, outDir0, outFiles0, enum1, enum2,
                    images1, images2, common_prefixes, todo, attempted, outcome,
                    processed, files_with_diff, files_without_diff, report, stdout >>

Scan1 ==
    /\ pc = "scan1"
    /\ \E order \in Perms(GlobPng(dir1)) :
          /\ enum1' = order
          /\ images1' = collect_images(order)
    /\ stdout' = stdout \cup {"scanning1"}
    /\ pc' = "scan2"
    /\ UNCHANGED << argv_len, dir1, dir2, outParent, outDir, outFiles, outDir0, outFiles0,
                    enum2, images2, common_prefixes, todo, attempted, outcome,
                    processed, files_with_diff, files_without_diff, report, exit_code >>

Scan2 ==
    /\ pc = "scan2"
    /\ \E order \in Perms(GlobPng(dir2)) :
          /\ enum2' = order
          /\ images2' = collect_images(order)
    /\ stdout' = stdout \cup {"scanning2"}
    /\ pc' = "match"
    /\ UNCHANGED << argv_len, dir1, dir2, outParent, outDir, outFiles, outDir0, outFiles0,
                    enum1, images1, common_prefixes, todo, attempted, outcome,
                    processed, files_with_diff, files_without_diff, report, exit_code >>

Match ==
    /\ pc = "match"
    /\ common_prefixes' = CommonPrefixes(images1, images2)
    /\ IF common_prefixes' = {}
       THEN /\ stdout' = stdout \cup {"found_pairs", "no_matching"}
            /\ pc' = "done"               \* return; main returns; exit status 0
            /\ exit_code' = 0
            /\ UNCHANGED << todo, processed, files_with_diff, files_without_diff >>
       ELSE /\ stdout' = stdout \cup {"found_pairs"}
            /\ todo' = sorted(common_prefixes')
            /\ processed' = 0
            /\ files_with_diff' = <<>>
            /\ files_without_diff' = <<>>
            /\ pc' = "loop"
            /\ UNCHANGED exit_code
    \* the two glob iterators are gone: the recorded orders are dropped
    /\ enum1' = <<>>
    /\ enum2' = <<>>
    /\ UNCHANGED << argv_len, dir1, dir2, outParent, outDir, outFiles, outDir0, outFiles0,
                    images1, images2, attempted, outcome, report >>

\* the try block of one iteration: create_difference_image, then save.  c1 and c2
\* are what the two files hold, r2 what a resize returns, fault where the
\* environment makes a step raise.  raised: the step that raised ("none": the
\* block completed); file: what the block did to <prefix>_diff.png
pair_result(c1, c2, r2, fault) ==
    IF c1 = Corrupt \/ c2 = Corrupt
    THEN [raised |-> "create", has_difference |-> FALSE, file |-> "unchanged"]
    ELSE IF (Len(c1) # Len(c2) /\ fault = "resize") \/ fault = "render"
    THEN [raised |-> "create", has_difference |-> FALSE, file |-> "unchanged"]
    ELSE LET img2 == IF Len(c1) = Len(c2) THEN c2 ELSE r2
             d == create_difference_image(c1, img2)
         IN  IF fault = "save_unwritten"
             THEN [raised |-> "save", has_difference |-> d.has_difference,
                   file |-> "unchanged"]
             ELSE IF fault = "save_partial"
             THEN [raised |-> "save", has_difference |-> d.has_difference,
                   file |-> "partial"]
             ELSE [raised |-> "none", has_difference |-> d.has_difference,
                   file |-> "new"]

after_pair_counts_before_save(n, with, without, prefix, res) ==
    IF res.raised = "create"
    THEN [processed |-> n, files_with_diff |-> with, files_without_diff |-> without]
    ELSE IF res.raised = "save"
    THEN [processed |-> n + 1, files_with_diff |-> with, files_without_diff |-> without]
    ELSE IF res.has_difference
    THEN [processed |-> n + 1, files_with_diff |-> Append(with, prefix),
          files_without_diff |-> without]
    ELSE [processed |-> n + 1, files_with_diff |-> with,
          files_without_diff |-> Append(without, prefix)]

\* processed and the two lists after one iteration
after_pair(n, with, without, prefix, res) ==
    IF res.raised # "none"
    THEN [processed |-> n, files_with_diff |-> with, files_without_diff |-> without]
    ELSE IF res.has_difference
    THEN [processed |-> n + 1, files_with_diff |-> Append(with, prefix),
          files_without_diff |-> without]
    ELSE [processed |-> n + 1, files_with_diff |-> with,
          files_without_diff |-> Append(without, prefix)]

pc_after_uncaught == "crash"
\* except Exception as e: print(...); the loop goes on
pc_after_except == "loop"

OutcomeTag(res) ==
    IF res.raised = "create" THEN "create_raised"
    ELSE IF res.raised = "save" THEN "save_raised"
    ELSE IF res.has_difference THEN "with_diff"
    ELSE "without_diff"

ProcessPair ==
    /\ pc = "loop"
    /\ todo # <<>>
    /\ \E c1, c2 \in FileContents, fault \in Faults :
       \E r2 \in (IF c1 # Corrupt /\ c2 # Corrupt /\ Len(c1) # Len(c2)
                  THEN Resized(Len(c1)) ELSE {c2}) :
          LET prefix == Head(todo)
              res == pair_result(c1, c2, r2, fault)
              upd == after_pair(processed, files_with_diff, files_without_diff, prefix, res)
          IN  /\ attempted' = Append(attempted, prefix)
              /\ outcome' = Put(outcome, prefix, OutcomeTag(res))
              /\ outFiles' = IF res.file = "unchanged" THEN outFiles
                             ELSE Put(outFiles, DiffName(prefix), res.file)
              /\ processed' = upd.processed
              /\ files_with_diff' = upd.files_with_diff
              /\ files_without_diff' = upd.files_without_diff
              /\ stdout' = stdout \cup {"processing"}
                             \cup (IF res.raised = "none" THEN {} ELSE {"error_processing"})
              /\ pc' = IF res.raised = "none" THEN "loop" ELSE pc_after_except
              /\ exit_code' = IF pc' = "crash" THEN 1 ELSE exit_code
    /\ todo' = Tail(todo)
    /\ UNCHANGED << argv_len, dir1, dir2, outParent, outDir, outDir0, outFiles0,
                    enum1, enum2, images1, images2, common_prefixes, report >>

NoReport == [written |-> FALSE]
\* what the report file holds
report_text(total, n, with, without) ==
    [written |-> TRUE, total_pairs |-> total, processed |-> n,
     n_with |-> Len(with), n_without |-> Len(without),
     with |-> with, without |-> without]

WriteReport ==
    /\ pc = "loop"
    /\ todo = <<>>
    /\ report' = report_text(Cardinality(common_prefixes), processed,
                             files_with_diff, files_without_diff)
    /\ outFiles' = Put(outFiles, ReportName, "new")
    /\ stdout' = stdout \cup {"completed"}
    /\ pc' = "done"                       \* main returns; exit status 0
    /\ exit_code' = 0
    /\ UNCHANGED << argv_len, dir1, dir2, outParent, outDir, outDir0, outFiles0,
                    enum1, enum2, images1, images2, common_prefixes, todo, attempted,
                    outcome, processed, files_with_diff, files_without_diff >>

(***************************************************************************)
(* The specifications.                                                     *)
(***************************************************************************)
ArgvLens == {3, 4, 5}
OutputStates ==
    { [parent |-> FALSE, path |-> "absent", files |-> EmptyMap],
      [parent |-> TRUE, path |-> "absent", files |-> EmptyMap],
      [parent |-> TRUE, path |-> "dir", files |-> EmptyMap],
      [parent |-> TRUE, path |-> "dir", files |-> OldOutput] }

InitMain ==
    /\ pc = "main"
    /\ argv_len \in ArgvLens
    /\ dir1 \in Directories
    /\ dir2 \in Directories
    /\ \E o \in OutputStates :
          /\ outParent = o.parent
          /\ outDir = o.path
          /\ outFiles = o.files
          /\ outDir0 = o.path
          /\ outFiles0 = o.files
    /\ enum1 = <<>>
    /\ enum2 = <<>>
    /\ images1 = EmptyMap
    /\ images2 = EmptyMap
    /\ common_prefixes = {}
    /\ todo = <<>>
    /\ attempted = <<>>
    /\ outcome = EmptyMap
    /\ processed = 0
    /\ files_with_diff = <<>>
    /\ files_without_diff = <<>>
    /\ report = NoReport
    /\ stdout = {}
    /\ exit_code = NoExit

IdleMain ==
    /\ pc = "idle"
    /\ argv_len = 4
    /\ dir1 = Missing
    /\ dir2 = Missing
    /\ outParent = FALSE
    /\ outDir = "absent"
    /\ outFiles = EmptyMap
    /\ outDir0 = "absent"
    /\ outFiles0 = EmptyMap
    /\ enum1 = <<>>
    /\ enum2 = <<>>
    /\ images1 = EmptyMap
    /\ images2 = EmptyMap
    /\ common_prefixes = {}
    /\ todo = <<>>
    /\ attempted = <<>>
    /\ outcome = EmptyMap
    /\ processed = 0
    /\ files_with_diff = <<>>
    /\ files_without_diff = <<>>
    /\ report = NoReport
    /\ stdout = {}
    /\ exit_code = NoExit

IdlePrefix == fname = <<>> /\ fprefix = <<>> /\ fpc = "idle"
IdleDiff == dimg1 = <<>> /\ dimg2 = <<>> /\ dmask = <<>> /\ dhas = FALSE
            /\ dresult = <<>> /\ dpc = "idle"

\* the tool: one run of main on some file system
Init == InitMain /\ IdlePrefix /\ IdleDiff
Next ==
    \/ Main /\ UNCHANGED << prefixVars, diffVars >>
    \/ Mkdir /\ UNCHANGED << prefixVars, diffVars >>
    \/ Scan1 /\ UNCHANGED << prefixVars, diffVars >>
    \/ Scan2 /\ UNCHANGED << prefixVars, diffVars >>
    \/ Match /\ UNCHANGED << prefixVars, diffVars >>
    \/ ProcessPair /\ UNCHANGED << prefixVars, diffVars >>
    \/ WriteReport /\ UNCHANGED << prefixVars, diffVars >>
Spec == Init /\ [][Next]_vars

\* extract_prefix applied to one file name
NextPrefix == ExtractPrefix /\ UNCHANGED << mainVars, diffVars >>
InitPrefixOnly == IdleMain /\ InitPrefix /\ IdleDiff
SpecPrefix == InitPrefixOnly /\ [][NextPrefix]_vars

\* create_difference_image applied to two decoded images of one size
NextDiff == CreateDifferenceImage /\ UNCHANGED << mainVars, prefixVars >>
InitDiffOnly == IdleMain /\ IdlePrefix /\ InitDiff
SpecDiff == InitDiffOnly /\ [][NextDiff]_vars

(***************************************************************************)
(* Properties.                                                             *)
(***************************************************************************)
Range(s) == { s[i] : i \in 1..Len(s) }
NoDuplicates(s) == \A i, j \in 1..Len(s) : i # j => s[i] # s[j]
StrictlyAscending(s) == \A i \in 1..(Len(s) - 1) : StrLess(s[i], s[i + 1])
Raised(p) == outcome[p] \in {"create_raised", "save_raised"}
Succeeded(p) == outcome[p] \in {"with_diff", "without_diff"}
\* the entry <prefix>_diff.png is as it was when the process started
DiffFileUntouched(p) ==
    IF DiffName(p) \in DOMAIN outFiles0
    THEN DiffName(p) \in DOMAIN outFiles /\ outFiles[DiffName(p)] = outFiles0[DiffName(p)]
    ELSE DiffName(p) \notin DOMAIN outFiles
\* the prefixes of the .png entries of a directory
PngPrefixes(d) == { extract_prefix(f) : f \in { g \in d.entries : EndsWith(g, DotPng) } }

\* C1: throughout the loop and when the report is written, the two lists are
\* disjoint and duplicate-free, hold exactly the prefixes whose try block
\* completed (with-diff iff has_difference), hold no prefix whose processing
\* raised, and processed is the sum of their lengths; the report shows the same.
C1_Buckets ==
    pc \in {"loop", "done"} =>
        LET with == Range(files_with_diff)
            without == Range(files_without_diff)
        IN  /\ with \cap without = {}
            /\ NoDuplicates(files_with_diff)
            /\ NoDuplicates(files_without_diff)
            /\ with \cup without \subseteq common_prefixes
            /\ with = { p \in DOMAIN outcome : outcome[p] = "with_diff" }
            /\ without = { p \in DOMAIN outcome : outcome[p] = "without_diff" }
            /\ \A p \in DOMAIN outcome : Raised(p) => p \notin with \cup without
            /\ \A p \in DOMAIN outcome :
                   Succeeded(p) => DiffName(p) \in DOMAIN outFiles
                                   /\ outFiles[DiffName(p)] = "new"
            /\ processed = Len(files_with_diff) + Len(files_without_diff)
            /\ report.written =>
                   /\ report.processed = report.n_with + report.n_without
                   /\ report.processed = processed
                   /\ report.with = files_with_diff
                   /\ report.without = files_without_diff

C1_Witness ==
    /\ pc = "done"
    /\ report.written
    /\ \E p, q, r \in DOMAIN outcome :
          outcome[p] = "save_raised" /\ outcome[q] = "with_diff"
          /\ outcome[r] = "without_diff"

\* C2: once the loop over a non-empty set of matched pairs has started, whatever
\* pairs raise, the run never aborts: a step is always possible, every step of
\* the loop either attempts the next matched prefix and stays in the loop (one
\* prefix less to go) or, with none left, writes difference_report.txt with
\* 'Total image pairs' the size of the intersection, every matched prefix
\* attempted, and ends with exit status 0.  The process always runs its next
\* statement, so the run reaches that end.
C2_RunCompletes ==
    /\ [](pc = "loop" => ENABLED Next)
    /\ [](pc = "loop" => exit_code = NoExit /\ Range(attempted) \cup Range(todo)
                                                = DOMAIN images1 \cap DOMAIN images2)
    /\ [][pc = "loop" =>
            \/ /\ pc' = "loop"
               /\ todo # <<>>
               /\ attempted' = Append(attempted, Head(todo))
               /\ Len(todo') = Len(todo) - 1
            \/ /\ pc' = "done"
               /\ todo = <<>>
               /\ exit_code' = 0
               /\ report'.written
               /\ report'.total_pairs = Cardinality(DOMAIN images1 \cap DOMAIN images2)
               /\ ReportName \in DOMAIN outFiles'
               /\ outFiles'[ReportName] = "new"
               /\ Range(attempted') = DOMAIN images1 \cap DOMAIN images2
               /\ Len(attempted') = report'.total_pairs]_vars

C2_Witness ==
    /\ pc = "done"
    /\ report.written
    /\ report.total_pairs >= 2
    /\ report.processed = 0
    /\ \A p \in common_prefixes : p \in DOMAIN outcome /\ Raised(p)

\* C3: a pair whose processing raised (in decode, resize, render or save) has no
\* <prefix>_diff.png written by this run: the entry is as it was before the run.
C3_NoFileForFailedPair ==
    \A p \in DOMAIN outcome : Raised(p) => DiffFileUntouched(p)

\* what does hold: a pair that raised before save (decode, resize, render) left
\* its entry as it was
FailedBeforeSaveLeavesNoFile ==
    \A p \in DOMAIN outcome : outcome[p] = "create_raised" => DiffFileUntouched(p)

\* C4: with the right arguments, both input directories present and no common
\* prefix, a finished run has printed "No matching images found!", has written
\* no difference image and no report, has changed nothing in the output
\* directory, and its exit status is 0.
C4_EmptyIntersection ==
    (/\ pc \in {"done", "crash", "exited"}
     /\ argv_len = 4
     /\ dir1.exists
     /\ dir2.exists
     /\ PngPrefixes(dir1) \cap PngPrefixes(dir2) = {})
    => (/\ "no_matching" \in stdout
        /\ ~report.written
        /\ DOMAIN outFiles = DOMAIN outFiles0
        /\ \A n \in DOMAIN outFiles : outFiles[n] = outFiles0[n]
        /\ exit_code = 0)

\* what does hold: the same, for an output path that exists or whose parent does
EmptyIntersectionWhenCreatable ==
    (/\ pc = "done"
     /\ PngPrefixes(dir1) \cap PngPrefixes(dir2) = {})
    => (/\ "no_matching" \in stdout
        /\ ~report.written
        /\ outDir = "dir"
        /\ DOMAIN outFiles = DOMAIN outFiles0
        /\ \A n \in DOMAIN outFiles : outFiles[n] = outFiles0[n]
        /\ exit_code = 0)

\* C5: with a wrong argument count or a missing input directory the process
\* exits with status 1 before any work (nothing scanned, the output directory
\* not created, nothing written); compare_directories is reached only with the
\* right argument count and both input directories present.
C5_ExitBeforeWork ==
    /\ (argv_len # 4 \/ ~dir1.exists \/ ~dir2.exists) =>
           /\ pc \in {"main", "exited"}
           /\ pc = "exited" => exit_code = 1
           /\ stdout \cap {"scanning1", "scanning2", "banner"} = {}
           /\ DOMAIN images1 = {} /\ DOMAIN images2 = {}
           /\ outDir = outDir0
           /\ DOMAIN outFiles = DOMAIN outFiles0
           /\ \A n \in DOMAIN outFiles : outFiles[n] = outFiles0[n]
           /\ ~report.written
    /\ pc \notin {"main", "exited"} => argv_len = 4 /\ dir1.exists /\ dir2.exists
    /\ pc = "exited" => (argv_len # 4 \/ ~dir1.exists \/ ~dir2.exists)

C5_Witness ==
    /\ pc = "exited"
    /\ exit_code = 1
    /\ argv_len = 4
    /\ dir1.exists
    /\ ~dir2.exists
    /\ outDir0 = "absent"
    /\ outParent

\* C6: the loop visits the intersection of the two key sets, each prefix once,
\* in ascending order of the strings, and each section of the report lists its
\* prefixes in that same order.
C6_ProcessingOrder ==
    /\ StrictlyAscending(attempted)
    /\ NoDuplicates(attempted)
    /\ Range(attempted) \subseteq DOMAIN images1 \cap DOMAIN images2
    /\ StrictlyAscending(files_with_diff)
    /\ StrictlyAscending(files_without_diff)
    /\ report.written =>
           /\ Range(attempted) = DOMAIN images1 \cap DOMAIN images2
           /\ StrictlyAscending(report.with)
           /\ StrictlyAscending(report.without)
           /\ Range(report.with) \cup Range(report.without) \subseteq Range(attempted)

C6_Witness ==
    /\ pc = "done"
    /\ report.written
    /\ attempted = << <<"B">>, <<"a">>, FileNoStamp >>
    /\ report.with = << <<"B">>, FileNoStamp >>
    /\ report.without = << <<"a">> >>

\* s is <base>_<8 digits>_<6 digits>.png for some <base>
HasStampShape(s) ==
    /\ Len(s) >= 20
    /\ LET t == SubSeq(s, Len(s) - 19, Len(s))
       IN  /\ t[1] = "_"
           /\ \A k \in 2..9 : t[k] \in Digits
           /\ t[10] = "_"
           /\ \A k \in 11..16 : t[k] \in Digits
           /\ <<t[17], t[18], t[19], t[20]>> = <<".", "p", "n", "g">>

\* C7: extract_prefix returns <base> for <base>_<8 digits>_<6 digits>.png, and
\* returns every file name that does not end with that shape unchanged.
C7_ExtractPrefix ==
    fpc = "returned" =>
        IF HasStampShape(fname)
        THEN fprefix = SubSeq(fname, 1, Len(fname) - 20)
        ELSE fprefix = fname

\* the one way a name that lacks the shape is changed: the shape followed by a
\* single newline that ends the name
ExtractPrefixExceptNewline ==
    (fpc = "returned" /\ ~(fname # <<>> /\ fname[Len(fname)] = "LF"
                           /\ HasStampShape(SubSeq(fname, 1, Len(fname) - 1))))
    => IF HasStampShape(fname)
       THEN fprefix = SubSeq(fname, 1, Len(fname) - 20)
       ELSE fprefix = fname

\* C8: whatever the order of enumeration, the index of a directory has as keys
\* exactly the prefixes of its .png entries, one path per key, and the path of
\* a key is the last enumerated file with that prefix.
IsIndexOf(images, d, order) ==
    /\ Range(order) = { f \in d.entries : EndsWith(f, DotPng) }
    /\ DOMAIN images = PngPrefixes(d)
    /\ \A k \in DOMAIN images :
          \E i \in 1..Len(order) :
              /\ images[k] = order[i]
              /\ extract_prefix(order[i]) = k
              /\ \A j \in (i + 1)..Len(order) : extract_prefix(order[j]) # k

C8_CollectImages ==
    /\ pc \in {"scan2", "match"} => IsIndexOf(images1, dir1, enum1)
    /\ pc = "match" => IsIndexOf(images2, dir2, enum2)
    /\ pc \in {"loop", "done"} =>
           DOMAIN images1 = PngPrefixes(dir1) /\ DOMAIN images2 = PngPrefixes(dir2)

C8_Witness ==
    /\ pc = "match"
    /\ {FileA1, FileA2, FileTxt} \subseteq dir1.entries
    /\ enum1 = <<FileA2, FileA1>>
    /\ images1[<<"a">>] = FileA1
    /\ {FileA1, FileA2} \subseteq dir2.entries
    /\ images2[<<"a">>] = FileA2

\* C9: a pixel is marked iff some channel differs by more than 10 (10 or less on
\* every channel never marks it), the marked pixels are the highlighted ones,
\* has_difference holds iff some pixel is marked, and an image compared with
\* itself has no difference and no highlighted pixel.
Far(p, q) == \E c \in Channels : p[c] - q[c] >= 11 \/ q[c] - p[c] >= 11
C9_Threshold ==
    dpc = "returned" =>
        /\ Len(dmask) = Len(dimg1)
        /\ \A i \in 1..Len(dimg1) :
              /\ dmask[i] <=> Far(dimg1[i], dimg2[i])
              /\ dmask[i] <=> dresult[i] = Highlight
        /\ dhas <=> \E i \in 1..Len(dimg1) : Far(dimg1[i], dimg2[i])
        /\ dimg1 = dimg2 =>
              /\ ~dhas
              /\ \A i \in 1..Len(dimg1) :
                    dresult[i] # Highlight /\ dresult[i][1] = dresult[i][2]
                    /\ dresult[i][2] = dresult[i][3]

C9_Witness ==
    /\ dpc = "returned"
    /\ dimg1 = << <<110, 100, 100>>, <<100, 100, 100>> >>
    /\ dimg2 = << <<100, 100, 100>>, <<100, 111, 100>> >>
    /\ dmask = <<FALSE, TRUE>>
    /\ dhas

\* C10: when compare_directories starts with the output path absent, whatever
\* the state of its parent, the directory is created and the run ends normally
\* with exit status 0; the entries an existing output directory held stay, and
\* only <prefix>_diff.png of matched prefixes and difference_report.txt are
\* rewritten.
C10_OutputDirectory ==
    /\ (pc \in {"scan1", "scan2", "match", "loop", "done", "crash"} /\ outDir0 = "absent") =>
           /\ outDir = "dir"
           /\ pc # "crash"
           /\ pc = "done" => exit_code = 0
    /\ \A n \in DOMAIN outFiles0 :
           /\ n \in DOMAIN outFiles
           /\ outFiles[n] # outFiles0[n] =>
                  \/ n = ReportName
                  \/ \E p \in common_prefixes : n = DiffName(p)

\* what does hold: the same, for an absent output path whose parent exists
OutputDirectoryWhenParentExists ==
    /\ (pc \in {"scan1", "scan2", "match", "loop", "done", "crash"} /\ outDir0 = "absent"
        /\ pc # "crash") =>
           /\ outDir = "dir"
           /\ pc = "done" => exit_code = 0
    /\ pc = "crash" => outDir0 = "absent" /\ outDir = "absent" /\ ~outParent
    /\ \A n \in DOMAIN outFiles0 :
           /\ n \in DOMAIN outFiles
           /\ outFiles[n] # outFiles0[n] =>
                  \/ n = ReportName
                  \/ \E p \in common_prefixes : n = DiffName(p)

====
